---- MODULE Spec2Model ----
(***************************************************************************)
(* Job-bot: the entity store (job_database.py) and the callers that write  *)
(* to it: the search pipeline and auto_apply (job_hunter.py), the          *)
(* dashboard status endpoint (web_app.py), the response manager            *)
(* (response_manager.py) and the submission scheduler (smart_timing.py).   *)
(*                                                                         *)
(* Time is counted in whole hours since Monday 2 November 2026 00:00 UTC.  *)
(* A datetime is kept the way the store keeps it, as the ISO text of a     *)
(* wall clock: the wall-clock hour, and the UTC offset suffix when the     *)
(* datetime is timezone-aware.  The zones have their offsets of that       *)
(* season: daylight saving ends in North America on Sunday 1 November and  *)
(* ended in Europe on Sunday 25 October.                                   *)
(***************************************************************************)
EXTENDS Integers, Sequences, FiniteSets, TLC

VARIABLES
    clock,          \* the present instant, hours since Monday 00:00 UTC
    jobs,           \* table jobs: sequence of rows, row i has id = i
    applications,   \* table applications: sequence of rows
    queue,          \* table queued_applications: sequence of rows, row i has id = i
    dashPending,    \* dashboard status request between its two store calls
    last,           \* the last operation that ran and what it returned
    conn,           \* the open store connection of each concurrent caller
    dbLock,         \* the caller that holds the database's write lock, if any
    stats,          \* a get_stats call between its queries
    scoring,        \* a call of the job matcher: its input and its result
    timing,         \* a call of the submission scheduler: its input and its result
    analysis,       \* calls of the correspondence classifier on one e-mail
    search          \* the dashboard's search_status, its POST /api/search
                    \* requests and the background threads they started

\* what the concurrent callers of the store add to the state
concVars == <<conn, dbLock, stats>>

\* the calls of the pure functions
pureVars == <<scoring, timing, analysis>>

\* the dashboard's searches
webVars == <<search>>

vars == <<clock, jobs, applications, queue, dashPending, last, concVars, pureVars, webVars>>

----------------------------------------------------------------------------
(* Bounds of the model *)

StartClock == 34        \* Tuesday 10:00 UTC
TickHours == 14
MaxTicks == 1
MaxQueue == 2
MaxApplications == 1

\* UTC offset of the machine's local clock, the one datetime.now() reads
LocalOffset == 0

----------------------------------------------------------------------------
(* Datetimes as the store keeps them: ISO text *)

NULL == [isnull |-> TRUE, wall |-> 0, aware |-> FALSE, off |-> 0]

\* datetime.now().isoformat(): naive local wall clock, no offset suffix
NowIso == [isnull |-> FALSE, wall |-> clock + LocalOffset, aware |-> FALSE, off |-> 0]

\* the absolute instant a timezone-aware datetime denotes
Instant(s) == s.wall - s.off

\* rank of the text after the seconds: "" < "+HH:MM" < "-HH:MM", each by digits
SuffixRank(s) ==
    IF ~s.aware THEN 0
    ELSE IF s.off >= 0 THEN 1 + s.off
    ELSE 100 - s.off

\* SQLite's TEXT comparison a <= b of two ISO datetimes
TextLeq(a, b) ==
    \/ a.wall < b.wall
    \/ a.wall = b.wall /\ SuffixRank(a) <= SuffixRank(b)

weekday(wall) == (wall \div 24) % 7     \* 0 = Monday
hour(wall) == wall % 24

----------------------------------------------------------------------------
(* The jobs the scrapers hand over: one posting, scraped twice with       *)
(* different descriptive fields and score under the same job_id.          *)

ScrapedJobs ==
    { [job_id |-> "indeed_1",   title |-> "Python Developer",  company |-> "Acme",
       location |-> "Tokyo, Japan",  source |-> "indeed",   match_score |-> 70,
       easy_apply |-> TRUE],
      [job_id |-> "indeed_1",   title |-> "Financial Analyst", company |-> "Acme",
       location |-> "New York, USA", source |-> "indeed",   match_score |-> 40,
       easy_apply |-> TRUE] }

JobIds == {d.job_id : d \in ScrapedJobs}

----------------------------------------------------------------------------
(* Entity store: job_database.py *)

\* the UNIQUE constraint on jobs.job_id: is the key already taken?
job_id_exists(J, job_id) == \E i \in DOMAIN J : J[i].job_id = job_id

\* the row INSERT writes: status and applied_date take the column defaults
new_row(J, d, now) ==
    [id |-> Len(J) + 1, job_id |-> d.job_id, title |-> d.title, company |-> d.company,
     location |-> d.location, source |-> d.source, found_date |-> now,
     status |-> "new", match_score |-> d.match_score, applied_date |-> NULL]

\* a store that drops the uniqueness check
add_job_rows_duplicating(J, d, now) == Append(J, new_row(J, d, now))

\* a store that updates the existing row (INSERT OR REPLACE)
add_job_rows_replacing(J, d, now) ==
    IF job_id_exists(J, d.job_id)
    THEN [i \in DOMAIN J |->
            IF J[i].job_id = d.job_id
            THEN [new_row(J, d, now) EXCEPT !.id = i]
            ELSE J[i]]
    ELSE Append(J, new_row(J, d, now))

\* INSERT OR IGNORE INTO jobs
add_job_rows(J, d, now) ==
    IF job_id_exists(J, d.job_id) THEN J ELSE Append(J, new_row(J, d, now))

\* cursor.rowcount > 0
add_job_result(J, d, now) == Len(add_job_rows(J, d, now)) > Len(J)

Ret(b) == IF b THEN "True" ELSE "False"

\* JobDatabase.add_job, as run_search, the dashboard search and
\* add_sample_jobs call it for each job
add_job(d) ==
    /\ jobs' = add_job_rows(jobs, d, NowIso)
    /\ last' = [op |-> "add_job", job_id |-> d.job_id, arg |-> d.title,
                ret |-> Ret(add_job_result(jobs, d, NowIso))]
    /\ UNCHANGED <<clock, applications, queue, dashPending, concVars, pureVars, webVars>>

\* UPDATE jobs SET status = ? WHERE job_id = ?
update_job_status(J, job_id, status) ==
    [i \in DOMAIN J |->
        IF J[i].job_id = job_id THEN [J[i] EXCEPT !.status = status] ELSE J[i]]

\* UPDATE jobs SET status = 'applied', applied_date = ? WHERE job_id = ?
mark_as_applied_jobs(J, job_id, now) ==
    [i \in DOMAIN J |->
        IF J[i].job_id = job_id
        THEN [J[i] EXCEPT !.status = "applied", !.applied_date = now]
        ELSE J[i]]

\* a store that forgets the audit record
mark_as_applied_applications_none(A, job_id, now) == A

\* INSERT INTO applications (job_id, applied_date, status); the row's own
\* applied_date, which nothing reads back, is left out
mark_as_applied_applications(A, job_id, now) ==
    Append(A, [job_id |-> job_id, status |-> "pending"])

\* a signature that takes the third argument the response manager passes
update_job_status_accepts_any(nargs) == TRUE

\* def update_job_status(self, job_id, status): a call with any other number
\* of arguments raises TypeError before the statement runs
update_job_status_accepts(nargs) == nargs = 2

----------------------------------------------------------------------------
(* Dashboard: web_app.py, POST /api/jobs/<job_id>/status *)

STATUSES == {"new", "applied", "rejected", "interview", "offer", "skipped"}

\* an endpoint without the whitelist
status_is_valid_any(new_status) == TRUE

\* if new_status in ['new', 'applied', 'rejected', 'interview', 'offer', 'skipped']
status_is_valid(new_status) == new_status \in STATUSES

\* what a client may post as status
PostedStatuses == STATUSES \cup {"archived"}

\* the handler up to and including db.update_job_status; for 'applied' the
\* handler goes on with db.mark_as_applied, a second transaction
api_update_job_status(job_id, new_status) ==
    /\ dashPending = ""
    /\ new_status = "applied" => Len(applications) < MaxApplications
    /\ IF status_is_valid(new_status)
       THEN /\ jobs' = update_job_status(jobs, job_id, new_status)
            /\ dashPending' = IF new_status = "applied" THEN job_id ELSE ""
            /\ last' = [op |-> "api_update_job_status", job_id |-> job_id,
                        arg |-> new_status,
                        ret |-> IF new_status = "applied" THEN "" ELSE "success"]
       ELSE /\ UNCHANGED <<jobs, dashPending>>
            /\ last' = [op |-> "api_update_job_status", job_id |-> job_id,
                        arg |-> new_status, ret |-> "Invalid status"]
    /\ UNCHANGED <<clock, applications, queue, concVars, pureVars, webVars>>

\* if new_status == 'applied': db.mark_as_applied(job_id); return success
api_update_job_status_applied ==
    /\ dashPending # ""
    /\ jobs' = mark_as_applied_jobs(jobs, dashPending, NowIso)
    /\ applications' = mark_as_applied_applications(applications, dashPending, NowIso)
    /\ dashPending' = ""
    /\ last' = [op |-> "api_update_job_status", job_id |-> dashPending,
                arg |-> "applied", ret |-> "success"]
    /\ UNCHANGED <<clock, queue, concVars, pureVars, webVars>>

----------------------------------------------------------------------------
(* Job dictionaries *)

\* A job is a record of the keys that have a text (or boolean) value; the
\* keys whose value is Python's None (a scraper that found no element, a
\* NULL column of the jobs table) are listed under nulls; any other key is
\* missing.
is_none(job, key) == "nulls" \in DOMAIN job /\ key \in job.nulls

\* job.get(key, default) for a key whose value is not None
job_get(job, key, default) == IF key \in DOMAIN job THEN job[key] ELSE default

----------------------------------------------------------------------------
(* Submission scheduler: smart_timing.py *)

OPTIMAL_DAYS == {1, 2, 3}           \* Tuesday, Wednesday, Thursday

OPTIMAL_HOURS(industry) ==
    CASE industry = "tech"       -> 8..10
      [] industry = "finance"    -> 9..11
      [] industry = "healthcare" -> 7..9
      [] industry = "retail"     -> 10..12
      [] OTHER                   -> 8..10

\* which of the code's keywords occur in the lower-cased text, for the
\* titles and locations of ScrapedJobs
KeywordsIn(text) ==
    CASE text = "Python Developer"  -> {"python", "developer"}
      [] text = "Sales Manager"     -> {"sales"}
      [] text = "Financial Analyst" -> {"financial", "analyst"}
      [] text = "Tokyo, Japan"      -> {"tokyo"}
      [] text = "New York, USA"     -> {"new york", "usa"}
      [] text = "Paris, France"     -> {"paris", "france"}
      [] text = "Registered Nurse"  -> {"nurse"}
      [] text = "San Francisco, CA" -> {"san francisco"}
      [] OTHER                      -> {}

CITY_TIMEZONES ==
    << <<"paris", "Europe/Paris">>, <<"london", "Europe/London">>,
       <<"new york", "America/New_York">>, <<"san francisco", "America/Los_Angeles">>,
       <<"berlin", "Europe/Berlin">>, <<"tokyo", "Asia/Tokyo">>,
       <<"sydney", "Australia/Sydney">> >>

\* the zones whose daylight saving time ends in the autumn of 2026
DstZones == {"Europe/Paris", "Europe/London", "Europe/Berlin",
             "America/New_York", "America/Los_Angeles"}

\* the instant (UTC) at which it ends: Sunday 25 October 01:00 UTC in
\* Europe, Sunday 1 November 02:00 local daylight time in North America
DstEnd(tz) ==
    CASE tz = "America/New_York"    -> 0 - 18
      [] tz = "America/Los_Angeles" -> 0 - 15
      [] OTHER                      -> 0 - 191

\* the zone's UTC offset in hours without daylight saving (for Sydney,
\* whose summer covers the whole period, with it)
StandardOffset(tz) ==
    CASE tz = "Europe/Paris"        -> 1
      [] tz = "Europe/London"       -> 0
      [] tz = "America/New_York"    -> 0 - 5
      [] tz = "America/Los_Angeles" -> 0 - 8
      [] tz = "Europe/Berlin"       -> 1
      [] tz = "Asia/Tokyo"          -> 9
      [] tz = "Australia/Sydney"    -> 11
      [] OTHER                      -> 0

\* UTC offset of a zone, in hours, at the instant utc
UtcOffset(tz, utc) ==
    IF tz \in DstZones /\ utc < DstEnd(tz)
    THEN StandardOffset(tz) + 1
    ELSE StandardOffset(tz)

_get_company_timezone(location) ==
    LET kws == KeywordsIn(location)
        hits == {i \in DOMAIN CITY_TIMEZONES : CITY_TIMEZONES[i][1] \in kws}
    IN  IF hits # {}
        THEN CITY_TIMEZONES[CHOOSE i \in hits : \A j \in hits : i <= j][2]
        ELSE IF "france" \in kws \/ "paris" \in kws THEN "Europe/Paris"
        ELSE IF "uk" \in kws \/ "london" \in kws THEN "Europe/London"
        ELSE IF "germany" \in kws \/ "berlin" \in kws THEN "Europe/Berlin"
        ELSE IF "usa" \in kws \/ "united states" \in kws THEN "America/New_York"
        ELSE "UTC"

_detect_industry(job_title) ==
    LET kws == KeywordsIn(job_title)
    IN  IF kws \cap {"developer", "engineer", "programmer", "software", "data",
                     "devops", "cloud", "python", "java", "tech"} # {} THEN "tech"
        ELSE IF kws \cap {"analyst", "finance", "banking", "investment",
                          "accountant", "financial"} # {} THEN "finance"
        ELSE IF kws \cap {"nurse", "doctor", "medical", "healthcare", "clinical",
                          "physician"} # {} THEN "healthcare"
        ELSE IF kws \cap {"retail", "sales", "store", "customer service"} # {}
        THEN "retail"
        ELSE "default"

max_iterations == 168

RECURSIVE next_optimal_day(_)
next_optimal_day(wall) ==
    IF weekday(wall) \in OPTIMAL_DAYS THEN wall ELSE next_optimal_day(wall + 24)

\* a scan that tests the hour of the day only
RECURSIVE find_slot_any_day(_, _, _)
find_slot_any_day(next_optimal, iterations, optimal_hours) ==
    IF iterations < max_iterations
    THEN IF hour(next_optimal) \in optimal_hours
         THEN next_optimal
         ELSE find_slot_any_day(next_optimal + 1, iterations + 1, optimal_hours)
    ELSE (next_optimal_day(next_optimal) \div 24) * 24 + 9

\* the while loop of get_optimal_apply_time from next_optimal, after
\* iterations turns: the wall-clock hour in the company's zone it returns
RECURSIVE find_slot(_, _, _)
find_slot(next_optimal, iterations, optimal_hours) ==
    IF iterations < max_iterations
    THEN IF weekday(next_optimal) \in OPTIMAL_DAYS /\ hour(next_optimal) \in optimal_hours
         THEN next_optimal
         ELSE find_slot(next_optimal + 1, iterations + 1, optimal_hours)
    ELSE (next_optimal_day(next_optimal) \div 24) * 24 + 9

\* the wall-clock hour the scan returns; it starts from
\* datetime.now(company_tz), the wall clock under the zone's offset at now
get_optimal_wall(job, now) ==
    find_slot(now + UtcOffset(_get_company_timezone(job_get(job, "location", "")), now), 0,
              OPTIMAL_HOURS(_detect_industry(job_get(job, "title", ""))))

\* SmartTiming.get_optimal_apply_time at instant now: a timezone-aware
\* datetime.  Adding a timedelta keeps the tzinfo of datetime.now, so the
\* result carries the zone's offset at now
get_optimal_apply_time(job, now) ==
    [isnull |-> FALSE, wall |-> get_optimal_wall(job, now), aware |-> TRUE,
     off |-> UtcOffset(_get_company_timezone(job_get(job, "location", "")), now)]

\* location.lower() and job_title.lower() raise AttributeError on None
get_optimal_apply_time_raises(job) ==
    is_none(job, "location") \/ is_none(job, "title")

\* the optimal time must be less than 2 hours away
should_apply_now_strict(job, now) ==
    Instant(get_optimal_apply_time(job, now)) - now < 2

\* SmartTiming.should_apply_now: (optimal_time - now) in hours <= 2
should_apply_now(job, now) ==
    Instant(get_optimal_apply_time(job, now)) - now <= 2

----------------------------------------------------------------------------
(* Queue of deferred submissions: job_database.py *)

\* INSERT INTO queued_applications (job_id, scheduled_time, created_date);
\* created_date, which nothing reads back, is left out
add_queued_application(Q, job_id, scheduled_time) ==
    Append(Q, [id |-> Len(Q) + 1, job_id |-> job_id,
               scheduled_time |-> scheduled_time, status |-> "pending"])

\* WHERE qa.status = 'pending' AND qa.scheduled_time <= ? on the rows that
\* JOIN jobs j ON qa.job_id = j.job_id keeps
pending_ids(Q, J, current_time) ==
    {i \in DOMAIN Q :
        /\ Q[i].status = "pending"
        /\ TextLeq(Q[i].scheduled_time, current_time)
        /\ job_id_exists(J, Q[i].job_id)}

\* ORDER BY qa.scheduled_time (TEXT order, rows of equal text in id order)
RECURSIVE order_by_scheduled_time(_, _)
order_by_scheduled_time(Q, ids) ==
    IF ids = {} THEN <<>>
    ELSE LET first == CHOOSE i \in ids : \A j \in ids :
                        \/ i = j
                        \/ ~TextLeq(Q[j].scheduled_time, Q[i].scheduled_time)
                        \/ /\ TextLeq(Q[i].scheduled_time, Q[j].scheduled_time)
                           /\ i < j
         IN  <<first>> \o order_by_scheduled_time(Q, ids \ {first})

\* the queue rows the query selects, in the order it returns them
pending_rows(Q, J, current_time) ==
    order_by_scheduled_time(Q, pending_ids(Q, J, current_time))

\* dict(zip(columns, row)) over SELECT qa.*, j.*: the columns id, job_id and
\* status occur twice, and the later one, from jobs, is the one the dict keeps
result_dict(qa, j) ==
    [id |-> j.id, job_id |-> j.job_id, scheduled_time |-> qa.scheduled_time,
     status |-> j.status, title |-> j.title, company |-> j.company,
     source |-> j.source]

job_row(J, job_id) == J[CHOOSE i \in DOMAIN J : J[i].job_id = job_id]

\* JobDatabase.get_pending_applications
get_pending_applications(Q, J, current_time) ==
    LET rows == pending_rows(Q, J, current_time)
    IN  [k \in DOMAIN rows |-> result_dict(Q[rows[k]], job_row(J, Q[rows[k]].job_id))]

\* UPDATE queued_applications SET status = 'completed' WHERE id = ?
mark_queue_completed(Q, queue_id) ==
    [i \in DOMAIN Q |->
        IF Q[i].id = queue_id THEN [Q[i] EXCEPT !.status = "completed"] ELSE Q[i]]

----------------------------------------------------------------------------
(* Job pipeline: job_hunter.py *)

\* what the submission adapter does with one application.  "failure" is a
\* run that returned success = False (unresolved questions included) or
\* raised: the else branch and the except branch both only print
AdapterOutcomes == {"success", "failure"}

\* one turn of the loop of JobHunter.auto_apply over the jobs run_search
\* returned (and saved): queue the job when the timing is not optimal;
\* else hand a LinkedIn job to the submission adapter, whose answer is
\* dropped, and do nothing with a job of another source.  The store is not
\* told of an immediate submission.
auto_apply(job) ==
    /\ job.easy_apply
    /\ job_id_exists(jobs, job.job_id)
    /\ IF ~should_apply_now(job, clock)
       THEN /\ Len(queue) < MaxQueue
            /\ queue' = add_queued_application(queue, job.job_id,
                                               get_optimal_apply_time(job, clock))
            /\ last' = [op |-> "auto_apply", job_id |-> job.job_id, arg |-> "",
                        ret |-> "queued"]
       ELSE /\ UNCHANGED queue
            /\ IF job.source = "linkedin"
               THEN \E outcome \in AdapterOutcomes :
                        last' = [op |-> "auto_apply", job_id |-> job.job_id,
                                 arg |-> outcome, ret |-> "submitted"]
               ELSE last' = [op |-> "auto_apply", job_id |-> job.job_id, arg |-> "",
                             ret |-> "not_submitted"]
    /\ UNCHANGED <<clock, jobs, applications, dashPending, concVars, pureVars, webVars>>

\* JobDatabase.get_new_jobs: the rows with status new, as dictionaries of
\* the table's columns
get_new_jobs(J) == SelectSeq(J, LAMBDA row : row.status = "new")

\* scheduler.py's auto_apply_job, every 4 hours: auto_apply() over
\* get_new_jobs(), of which it keeps the jobs with a true easy_apply key
auto_apply_job ==
    LET easy_apply_jobs ==
            SelectSeq(get_new_jobs(jobs), LAMBDA j : job_get(j, "easy_apply", FALSE))
    IN  IF easy_apply_jobs = <<>>
        THEN /\ last' = [op |-> "auto_apply_job", job_id |-> "", arg |-> "",
                         ret |-> "none"]
             /\ UNCHANGED <<clock, jobs, applications, queue, dashPending,
                            concVars, pureVars, webVars>>
        ELSE auto_apply(easy_apply_jobs[1])

\* the loop of process_queued_applications from its k-th application on
RECURSIVE process_from(_, _, _, _, _)
process_from(pending, outcome, k, now, db) ==
    IF k > Len(pending) THEN db
    ELSE IF outcome[k] = "success"
    THEN process_from(pending, outcome, k + 1, now,
            [jobs |-> mark_as_applied_jobs(db.jobs, pending[k].job_id, now),
             applications |->
                mark_as_applied_applications(db.applications, pending[k].job_id, now),
             queue |-> mark_queue_completed(db.queue, pending[k].id)])
    ELSE process_from(pending, outcome, k + 1, now, db)

\* JobHunter.process_queued_applications; last.arg keeps, for each
\* application of the list in turn, whether the adapter returned success
process_queued_applications ==
    LET pending == get_pending_applications(queue, jobs, NowIso)
    IN  /\ \E outcome \in [DOMAIN pending -> AdapterOutcomes] :
            LET db == process_from(pending, outcome, 1, NowIso,
                        [jobs |-> jobs, applications |-> applications,
                         queue |-> queue])
            IN  /\ Len(db.applications) <= MaxApplications
                /\ jobs' = db.jobs
                /\ applications' = db.applications
                /\ queue' = db.queue
                /\ last' = [op |-> "process_queued_applications", job_id |-> "",
                            arg |-> [k \in DOMAIN pending |-> outcome[k] = "success"],
                            ret |-> IF pending = <<>> THEN "none" ELSE "processed"]
        /\ UNCHANGED <<clock, dashPending, concVars, pureVars, webVars>>

----------------------------------------------------------------------------
(* Response manager: response_manager.py *)

RESPONSE_ACTIONS == {"schedule_interview", "follow_up", "send_info", "rejection", "unknown"}

status_map(action) ==
    CASE action = "schedule_interview" -> "interview_scheduled"
      [] action = "follow_up"          -> "follow_up_sent"
      [] action = "send_info"          -> "info_requested"
      [] action = "rejection"          -> "rejected"
      [] OTHER                         -> "response_received"

RecentDays == 30

\* JobDatabase.get_recent_applications: status = 'applied' AND
\* applied_date >= date('now', '-30 days'), a comparison of texts that a
\* NULL applied_date fails
get_recent_applications(J, now) ==
    {i \in DOMAIN J :
        /\ J[i].status = "applied"
        /\ ~J[i].applied_date.isnull
        /\ J[i].applied_date.wall \div 24 >= (now \div 24) - RecentDays}

\* _find_related_job for an email without a job_id key whose text names the
\* company and title of the job about: the recent application it matches
_find_related_job(J, about, now) ==
    {i \in get_recent_applications(J, now) : J[i].job_id = about}

\* ResponseManager._update_job_status: the store call passes three
\* arguments inside try/except, so a TypeError leaves the row as it was
_update_job_status(J, job_id, action) ==
    IF update_job_status_accepts(3)
    THEN update_job_status(J, job_id, status_map(action))
    ELSE J

\* ResponseManager._handle_rejection up to its first statement that raises:
\* the store call with three arguments, outside any try
_handle_rejection(J, job_id) ==
    IF update_job_status_accepts(3)
    THEN update_job_status(J, job_id, "rejected")
    ELSE J

\* does _handle_analysis_result return, or does it raise?  The rejection
\* handler raises TypeError at the store call; the rejection, information
\* and unknown handlers build their message with an f-string that names
\* undefined variables and raise NameError; the interview and follow-up
\* handlers catch what their body raises
handler_returns(action) == action \in {"schedule_interview", "follow_up"}

\* the emails that arrive: without a job_id key, of every class; with a
\* job_id key, where the class is never looked at
EmailInputs == ({FALSE} \X RESPONSE_ACTIONS) \cup {<<TRUE, "unknown">>}

\* ResponseManager.process_incoming_email.  has_job_id: the email dict
\* carries a job_id key, which sends _find_related_job to db.get_job, a
\* method JobDatabase does not have (AttributeError).  action: what
\* analyze_response makes of the body, once a related job is found
process_incoming_email(about, has_job_id, action) ==
    /\ IF has_job_id
       THEN /\ UNCHANGED jobs
            /\ last' = [op |-> "process_incoming_email", job_id |-> "",
                        arg |-> "", ret |-> "raised"]
       ELSE IF _find_related_job(jobs, about, clock) = {}
       THEN /\ UNCHANGED jobs
            /\ last' = [op |-> "process_incoming_email", job_id |-> "",
                        arg |-> "", ret |-> "error"]
       ELSE IF handler_returns(action)
       THEN /\ jobs' = _update_job_status(jobs, about, action)
            /\ last' = [op |-> "process_incoming_email", job_id |-> about,
                        arg |-> action, ret |-> "success"]
       ELSE /\ jobs' = IF action = "rejection"
                       THEN _handle_rejection(jobs, about) ELSE jobs
            /\ last' = [op |-> "process_incoming_email", job_id |-> about,
                        arg |-> action, ret |-> "raised"]
    /\ UNCHANGED <<clock, applications, queue, dashPending, concVars, pureVars, webVars>>

----------------------------------------------------------------------------
(* Concurrent callers of the store.  Every JobDatabase method opens its    *)
(* own sqlite3 connection.  A writing statement runs inside the            *)
(* transaction the sqlite3 module opens before it, under the database's    *)
(* write lock, which the connection keeps until conn.commit(); what the    *)
(* statement wrote is seen by the other connections from the commit on.    *)

\* the dashboard's background search thread (web_app.py, start_search) and
\* the scheduler process (scheduler.py), both saving the jobs they found
Threads == {"dashboard", "scheduler"}

\* add_job calls a caller makes
MaxCalls == 2

\* what the storage layer does with a statement: it runs, or it fails
\* (disk I/O error, or "database is locked" once the busy timeout is over)
StoreOutcomes == {"ok", "error"}

\* a store in which a writing statement waits for nobody
write_lock_free_always(lock, t) == TRUE

\* SQLite lets a statement write when no other connection holds the lock
write_lock_free(lock, t) == lock = "" \/ lock = t

\* add_job up to cursor.execute(INSERT OR IGNORE ...): the statement checks
\* the UNIQUE constraint and writes its row into the open transaction.
\* A failing statement raises inside the try: add_job returns False
add_job_execute(t, d, io) ==
    /\ conn[t].pc = "idle"
    /\ conn[t].calls < MaxCalls
    /\ IF io = "error"
       THEN /\ conn' = [conn EXCEPT ![t].calls = @ + 1, ![t].ret = "False"]
            /\ UNCHANGED dbLock
       ELSE /\ write_lock_free(dbLock, t)
            /\ dbLock' = t
            /\ conn' = [conn EXCEPT
                    ![t].pc = "commit",
                    ![t].calls = @ + 1,
                    ![t].job_id = d.job_id,
                    ![t].txn = IF job_id_exists(jobs, d.job_id) THEN <<>>
                               ELSE <<new_row(jobs, d, NowIso)>>]
    /\ UNCHANGED <<clock, jobs, applications, queue, dashPending, last, stats, pureVars, webVars>>

\* add_job from conn.commit() on: the transaction's row reaches the table,
\* the lock is released, and the call returns cursor.rowcount > 0
add_job_commit(t) ==
    /\ conn[t].pc = "commit"
    /\ jobs' = jobs \o conn[t].txn
    /\ dbLock' = IF dbLock = t THEN "" ELSE dbLock
    /\ conn' = [conn EXCEPT
            ![t].pc = "idle",
            ![t].txn = <<>>,
            ![t].ret = Ret(Len(conn[t].txn) > 0),
            ![t].inserted = IF Len(conn[t].txn) > 0
                            THEN @ \cup {<<conn[t].job_id, conn[t].calls>>} ELSE @]
    /\ UNCHANGED <<clock, applications, queue, dashPending, last, stats, pureVars, webVars>>

\* JobDatabase.update_job_status called while other connections are at
\* work, as the dashboard's request handlers call it: one statement and its
\* commit.  There is no try around the statement: a failure is raised to
\* the caller
update_job_status_call(job_id, status, io) ==
    /\ IF io = "error"
       THEN /\ UNCHANGED jobs
            /\ last' = [op |-> "update_job_status", job_id |-> job_id,
                        arg |-> status, ret |-> "raised"]
       ELSE /\ write_lock_free(dbLock, "request")
            /\ jobs' = update_job_status(jobs, job_id, status)
            /\ last' = [op |-> "update_job_status", job_id |-> job_id,
                        arg |-> status, ret |-> "None"]
    /\ UNCHANGED <<clock, applications, queue, dashPending, concVars, pureVars, webVars>>

\* the statuses the dashboard's requests set while the savers are at work
RequestedStatuses == {"applied", "rejected"}

\* the five queries of get_stats, in the order it runs them
STATS_KEYS == <<"total_jobs", "new_jobs", "applied", "rejected", "interviews">>

\* SELECT COUNT(*) FROM jobs [WHERE status = ...] for the k-th key
stats_query(J, k) ==
    CASE k = 1 -> Len(J)
      [] k = 2 -> Cardinality({i \in DOMAIN J : J[i].status = "new"})
      [] k = 3 -> Cardinality({i \in DOMAIN J : J[i].status = "applied"})
      [] k = 4 -> Cardinality({i \in DOMAIN J : J[i].status = "rejected"})
      [] k = 5 -> Cardinality({i \in DOMAIN J : J[i].status = "interview"})

\* JobDatabase.get_stats, one cursor.execute / fetchone per step: a SELECT
\* opens no transaction, so each query reads the table as committed at the
\* moment it runs.  A call that has run all five has returned its dict
get_stats_query ==
    /\ stats' = IF Len(stats) = Len(STATS_KEYS)
                THEN <<stats_query(jobs, 1)>>
                ELSE Append(stats, stats_query(jobs, Len(stats) + 1))
    /\ UNCHANGED <<clock, jobs, applications, queue, dashPending, last, conn, dbLock,
                   pureVars, webVars>>

\* the store after JobDatabase.__init__ on a fresh file
InitStore ==
    /\ clock = StartClock
    /\ jobs = <<>>
    /\ applications = <<>>
    /\ queue = <<>>
    /\ dashPending = ""
    /\ last = [op |-> "init", job_id |-> "", arg |-> "", ret |-> ""]

\* no connection open, no get_stats call begun
InitConc ==
    /\ conn = [t \in Threads |->
                [pc |-> "idle", calls |-> 0, job_id |-> "", txn |-> <<>>,
                 ret |-> "", inserted |-> {}]]
    /\ dbLock = ""
    /\ stats = <<>>

\* POST /api/search requests the dashboard receives
MaxRequests == 2
Requests == 1 .. MaxRequests

\* web_app.py's global search_status at import, no request received
InitWeb ==
    search = [status |-> [running |-> FALSE, progress |-> 0, message |-> "Ready",
                          last_search |-> NULL],
              req |-> [r \in Requests |-> "idle"],
              thread |-> [r \in Requests |->
                            [pc |-> "none", sources |-> {}, jobs |-> <<>>]]]

\* no call of the matcher or of the scheduler under way
InitPure ==
    /\ scoring = [phase |-> "idle"]
    /\ timing = [phase |-> "idle"]
    /\ analysis = [phase |-> "idle"]

----------------------------------------------------------------------------
(* Job matcher: job_matcher.py.  A text is the sequence of its characters. *)

\* str.lower() on the letters the texts below are written with
lower_char(c) ==
    CASE c = "A" -> "a"
      [] c = "B" -> "b"
      [] c = "C" -> "c"
      [] c = "D" -> "d"
      [] c = "E" -> "e"
      [] c = "F" -> "f"
      [] c = "G" -> "g"
      [] c = "H" -> "h"
      [] c = "I" -> "i"
      [] c = "J" -> "j"
      [] c = "K" -> "k"
      [] c = "L" -> "l"
      [] c = "M" -> "m"
      [] c = "N" -> "n"
      [] c = "O" -> "o"
      [] c = "P" -> "p"
      [] c = "Q" -> "q"
      [] c = "R" -> "r"
      [] c = "S" -> "s"
      [] c = "T" -> "t"
      [] c = "U" -> "u"
      [] c = "V" -> "v"
      [] c = "W" -> "w"
      [] c = "X" -> "x"
      [] c = "Y" -> "y"
      [] c = "Z" -> "z"
      [] OTHER -> c

lower(text) == [i \in DOMAIN text |-> lower_char(text[i])]

\* Python's `pattern in text` on two strings
contains(pattern, text) ==
    \E i \in 0 .. (Len(text) - Len(pattern)) :
        \A k \in DOMAIN pattern : text[i + k] = pattern[k]

\* does the regular expression, from its j-th token on, match the text at
\* position i?  A token is a literal character or ".?", one optional
\* character of any kind
RECURSIVE match_here(_, _, _, _)
match_here(pattern, j, text, i) ==
    IF j > Len(pattern) THEN TRUE
    ELSE IF pattern[j] = ".?"
    THEN \/ match_here(pattern, j + 1, text, i)
         \/ i <= Len(text) /\ match_here(pattern, j + 1, text, i + 1)
    ELSE /\ i <= Len(text)
         /\ text[i] = pattern[j]
         /\ match_here(pattern, j + 1, text, i + 1)

\* re.search(pattern, text)
re_search(pattern, text) ==
    \E i \in 1 .. (Len(text) + 1) : match_here(pattern, 1, text, i)

\* experience_patterns: the regular expressions of each level
experience_patterns(level) ==
    CASE level = "entry" ->
            <<<<"e", "n", "t", "r", "y", ".?", "l", "e", "v", "e", "l">>,
             <<"j", "u", "n", "i", "o", "r">>,
             <<"g", "r", "a", "d", "u", "a", "t", "e">>,
             <<"0", "-", "2", " ", "y", "e", "a", "r", "s">>,
             <<"d", "e-acute", "b", "u", "t", "a", "n", "t">>>>
      [] level = "junior" ->
            <<<<"j", "u", "n", "i", "o", "r">>,
             <<"1", "-", "3", " ", "y", "e", "a", "r", "s">>,
             <<"2", "-", "3", " ", "y", "e", "a", "r", "s">>>>
      [] level = "mid" ->
            <<<<"m", "i", "d", ".?", "l", "e", "v", "e", "l">>,
             <<"3", "-", "5", " ", "y", "e", "a", "r", "s">>,
             <<"i", "n", "t", "e", "r", "m", "e", "d", "i", "a", "t", "e">>>>
      [] level = "senior" ->
            <<<<"s", "e", "n", "i", "o", "r">>,
             <<"5", "+", " ", "y", "e", "a", "r", "s">>,
             <<"l", "e", "a", "d">>,
             <<"p", "r", "i", "n", "c", "i", "p", "a", "l">>>>
      [] OTHER -> <<>>        \* `if level in experience_patterns` is false

DIGITS == <<"0", "1", "2", "3", "4", "5", "6", "7", "8", "9">>

is_digit(c) == \E d \in DOMAIN DIGITS : DIGITS[d] = c

\* int() of one digit
digit_value(c) == (CHOOSE d \in DOMAIN DIGITS : DIGITS[d] = c) - 1

\* salary_text.lower().replace(' ', '').replace(',', '')
normalize_salary(salary_text) ==
    SelectSeq(lower(salary_text), LAMBDA c : c \notin {" ", ","})

\* re.findall(r'\d+', text)[0] read as a number: from position i on, with
\* the digits read so far worth acc; started says a digit was already read
RECURSIVE first_number(_, _, _, _)
first_number(text, i, acc, started) ==
    IF i > Len(text) THEN acc
    ELSE IF is_digit(text[i])
    THEN first_number(text, i + 1, acc * 10 + digit_value(text[i]), TRUE)
    ELSE IF started THEN acc
    ELSE first_number(text, i + 1, acc, FALSE)

\* a parser that never takes the text for a monthly amount
is_monthly_never(text) == FALSE

\* 'month' in salary_text or 'mois' in salary_text or '/m' in salary_text
is_monthly(text) ==
    \/ contains(<<"m", "o", "n", "t", "h">>, text)
    \/ contains(<<"m", "o", "i", "s">>, text)
    \/ contains(<<"/", "m">>, text)

\* JobMatcher._parse_salary
_parse_salary(salary_text) ==
    LET text == normalize_salary(salary_text)
    IN  IF \A i \in DOMAIN text : ~is_digit(text[i]) THEN 0
        ELSE LET number == first_number(text, 1, 0, FALSE)
                 salary == IF is_monthly(text) THEN number * 12 ELSE number
             IN  IF salary < 1000 THEN salary * 1000 ELSE salary

\* how many keywords of the list, from its i-th on, occur in the text
RECURSIVE keywords_in(_, _, _)
keywords_in(keywords, i, full_text) ==
    IF i > Len(keywords) THEN 0
    ELSE (IF contains(keywords[i], full_text) THEN 1 ELSE 0)
         + keywords_in(keywords, i + 1, full_text)

\* the loop over self.experience_level from its i-th level on: 10 points
\* for each level one of whose patterns matches (break after the first)
RECURSIVE experience_points(_, _, _)
experience_points(levels, i, full_text) ==
    IF i > Len(levels) THEN 0
    ELSE (IF \E p \in DOMAIN experience_patterns(levels[i]) :
                re_search(experience_patterns(levels[i])[p], full_text)
          THEN 10 ELSE 0)
         + experience_points(levels, i + 1, full_text)

\* the salary check: nothing without a salary text, a minimum, or a parsed
\* amount other than 0
salary_points(salary_text, min_salary) ==
    IF salary_text # <<>> /\ min_salary # 0
    THEN LET salary_match == _parse_salary(salary_text)
         IN  IF salary_match # 0
             THEN IF salary_match >= min_salary THEN 15
                  ELSE IF salary_match * 10 < min_salary * 8 THEN 0 - 20
                  ELSE 0
             ELSE 0
    ELSE 0

\* the recent posting bonus
posted_points(posted_date) ==
    LET posted == lower(posted_date)
    IN  IF \E word \in {<<"t", "o", "d", "a", "y">>,
                        <<"a", "u", "j", "o", "u", "r", "d", "'", "h", "u", "i">>,
                        <<"j", "u", "s", "t">>, <<"h", "o", "u", "r">>} : contains(word, posted)
        THEN 10
        ELSE IF \E word \in {<<"y", "e", "s", "t", "e", "r", "d", "a", "y">>, <<"h", "i", "e", "r">>,
                              <<"1", " ", "d", "a", "y">>} : contains(word, posted)
        THEN 5
        ELSE 0

\* a bonus that asks for more than three keywords
keywords_bonus_above_three(keywords_found) == IF keywords_found > 3 THEN 10 ELSE 0

\* if keywords_found >= 3: score += 10
keywords_bonus(keywords_found) == IF keywords_found >= 3 THEN 10 ELSE 0

\* a matcher that returns the raw sum
cap_none(score) == score

\* max(0, min(100, score))
cap(score) ==
    LET upper == IF score < 100 THEN score ELSE 100
    IN  IF upper > 0 THEN upper ELSE 0

\* JobMatcher.calculate_match_score when it does not raise (a salary that
\* is None is skipped like an empty one); m holds the matcher's lists, already
\* lower-cased by __init__, and its min_salary (0 when none is configured)
calculate_match_score(job, m) ==
    LET full_text == lower(job_get(job, "title", <<>>)) \o <<" ">>
                        \o lower(job_get(job, "description", <<>>))
        keywords_found == keywords_in(m.required_keywords, 1, full_text)
    IN  cap(50
            - 30 * keywords_in(m.exclude_keywords, 1, full_text)
            + 15 * keywords_found
            + keywords_bonus(keywords_found)
            + experience_points(m.experience_level, 1, full_text)
            + salary_points(job_get(job, "salary", <<>>), m.min_salary)
            + (IF job_get(job, "easy_apply", FALSE) THEN 5 ELSE 0)
            + posted_points(job_get(job, "posted_date", <<>>)))

\* .lower() on the title, the description or the posted date raises
\* AttributeError when the value is None
calculate_match_score_raises(job) ==
    is_none(job, "title") \/ is_none(job, "description") \/ is_none(job, "posted_date")

\* a sort that puts a job before the jobs of equal score already placed
sort_insert_before_ties(sorted, job) ==
    LET before == {k \in DOMAIN sorted : sorted[k].match_score > job.match_score}
    IN  SubSeq(sorted, 1, Cardinality(before)) \o <<job>>
            \o SubSeq(sorted, Cardinality(before) + 1, Len(sorted))

\* list.sort(key = match_score, reverse = True) is stable: a job goes after
\* the jobs placed before it whose score is greater or equal
sort_insert(sorted, job) ==
    LET before == {k \in DOMAIN sorted : sorted[k].match_score >= job.match_score}
    IN  SubSeq(sorted, 1, Cardinality(before)) \o <<job>>
            \o SubSeq(sorted, Cardinality(before) + 1, Len(sorted))

\* the loop of filter_jobs from the i-th job on: score the job, write the
\* score into it, keep it when the score reaches min_score
RECURSIVE scored_jobs(_, _, _, _)
scored_jobs(jobs_in, i, m, min_score) ==
    IF i > Len(jobs_in) THEN <<>>
    ELSE LET score == calculate_match_score(jobs_in[i], m)
             job == [job |-> jobs_in[i], match_score |-> score]
         IN  (IF score >= min_score THEN <<job>> ELSE <<>>)
                 \o scored_jobs(jobs_in, i + 1, m, min_score)

\* scored_jobs.sort(...), the jobs taken in list order
RECURSIVE sort_by_score(_, _, _)
sort_by_score(scored, i, sorted) ==
    IF i > Len(scored) THEN sorted
    ELSE sort_by_score(scored, i + 1, sort_insert(sorted, scored[i]))

\* JobMatcher.filter_jobs; a returned job is the input dict with its
\* match_score
filter_jobs(jobs_in, m, min_score) ==
    sort_by_score(scored_jobs(jobs_in, 1, m, min_score), 1, <<>>)

\* the texts of the jobs the scrapers hand to the matcher:
\*   "Junior Python Developer"
\*   "Senior Lead Engineer"
\*   "Full Stack Developer"
SampleTitles ==
    { <<"J", "u", "n", "i", "o", "r", " ", "P", "y", "t", "h", "o", "n", " ", "D", "e", "v", "e", "l", "o", "p", "e", "r">>,
      <<"S", "e", "n", "i", "o", "r", " ", "L", "e", "a", "d", " ", "E", "n", "g", "i", "n", "e", "e", "r">>,
      <<"F", "u", "l", "l", " ", "S", "t", "a", "c", "k", " ", "D", "e", "v", "e", "l", "o", "p", "e", "r">> }

\*   "Python, Django, React. Entry level"
EntryLevelDescription ==
    <<"P", "y", "t", "h", "o", "n", ",", " ", "D", "j", "a", "n", "g", "o", ",", " ", "R", "e", "a", "c", "t", ".", " ", "E", "n", "t", "r", "y", " ", "l", "e", "v", "e", "l">>

\*   "10+ years with JavaScript"
\*   ""
SampleDescriptions ==
    {EntryLevelDescription,
     <<"1", "0", "+", " ", "y", "e", "a", "r", "s", " ", "w", "i", "t", "h", " ", "J", "a", "v", "a", "S", "c", "r", "i", "p", "t">>,
     <<>>}

\*   ""
\*   "45K"
\*   "3500/mois"
\*   "1,500/month"
\*   "20 000"
\*   "30K"
\*   "Competitive"
\*   "0"
SampleSalaries ==
    { <<>>,
      <<"4", "5", "K">>,
      <<"3", "5", "0", "0", "/", "m", "o", "i", "s">>,
      <<"1", ",", "5", "0", "0", "/", "m", "o", "n", "t", "h">>,
      <<"2", "0", " ", "0", "0", "0">>,
      <<"3", "0", "K">>,
      <<"C", "o", "m", "p", "e", "t", "i", "t", "i", "v", "e">>,
      <<"0">> }

\*   ""
\*   "Just posted"
\*   "1 day ago"
SamplePosted ==
    { <<>>,
      <<"J", "u", "s", "t", " ", "p", "o", "s", "t", "e", "d">>,
      <<"1", " ", "d", "a", "y", " ", "a", "g", "o">> }

SampleJobs ==
    {[title |-> ti, description |-> de, salary |-> sa, easy_apply |-> ea,
      posted_date |-> po] :
        ti \in SampleTitles, de \in SampleDescriptions, sa \in SampleSalaries,
        ea \in BOOLEAN, po \in SamplePosted}

\* the jobs the lists given to filter_jobs are made of
ListJobs ==
    {j \in SampleJobs :
        /\ j.salary = <<>> /\ j.posted_date = <<>> /\ j.easy_apply
        /\ j.description \in {EntryLevelDescription, <<>>}}

\* the matchers the program builds: test_matcher's, the dashboard's
\* (web_app.py), the pipeline's from config.py, and one without criteria
Matchers ==
    { [required_keywords |->
          <<<<"p", "y", "t", "h", "o", "n">>,
            <<"d", "j", "a", "n", "g", "o">>,
            <<"j", "a", "v", "a", "s", "c", "r", "i", "p", "t">>,
            <<"r", "e", "a", "c", "t">>>>,
       exclude_keywords |->
          <<<<"s", "e", "n", "i", "o", "r">>,
            <<"l", "e", "a", "d">>,
            <<"1", "0", "+", " ", "y", "e", "a", "r", "s">>>>,
       experience_level |-> <<"entry", "junior", "mid">>,
       min_salary |-> 35000],
      [required_keywords |->
          <<<<"p", "y", "t", "h", "o", "n">>,
            <<"j", "a", "v", "a", "s", "c", "r", "i", "p", "t">>,
            <<"r", "e", "a", "c", "t">>,
            <<"d", "j", "a", "n", "g", "o">>>>,
       exclude_keywords |->
          <<<<"s", "e", "n", "i", "o", "r">>,
            <<"l", "e", "a", "d">>,
            <<"1", "0", "+", " ", "y", "e", "a", "r", "s">>>>,
       experience_level |-> <<>>,
       min_salary |-> 35000],
      [required_keywords |->
          <<<<"p", "y", "t", "h", "o", "n">>,
            <<"j", "a", "v", "a", "s", "c", "r", "i", "p", "t">>,
            <<"r", "e", "a", "c", "t">>,
            <<"d", "j", "a", "n", "g", "o">>,
            <<"f", "l", "a", "s", "k">>>>,
       exclude_keywords |->
          <<<<"s", "e", "n", "i", "o", "r">>,
            <<"l", "e", "a", "d">>,
            <<"m", "a", "n", "a", "g", "e", "r">>,
            <<"d", "i", "r", "e", "c", "t", "o", "r">>,
            <<"1", "0", "+", " ", "y", "e", "a", "r", "s">>,
            <<"8", "+", " ", "y", "e", "a", "r", "s">>>>,
       experience_level |-> <<"internship", "entry", "student">>,
       min_salary |-> 600],
      [required_keywords |->
          <<>>,
       exclude_keywords |->
          <<>>,
       experience_level |-> <<>>,
       min_salary |-> 0] }

\* the min_score arguments: the dashboard's and the pipeline's
MinScores == {30, 40}

\* the most jobs in a list given to filter_jobs
MaxJobs == 2

\* the lists of one job out of SampleJobs, and the longer ones out of ListJobs
JobLists ==
    {<<j>> : j \in SampleJobs}
        \cup UNION {[1 .. n -> ListJobs] : n \in 2 .. MaxJobs}

\* calls of the matcher
calculate_match_score_call ==
    /\ scoring.phase = "input"
    /\ scoring' = IF calculate_match_score_raises(scoring.jobs[1])
                  THEN [scoring EXCEPT !.phase = "raised", !.result = "AttributeError"]
                  ELSE [scoring EXCEPT
                          !.phase = "scored",
                          !.result = calculate_match_score(scoring.jobs[1], scoring.matcher)]
    /\ UNCHANGED <<clock, jobs, applications, queue, dashPending, last, concVars, timing, analysis, webVars>>

_parse_salary_call ==
    /\ scoring.phase = "input"
    /\ scoring' = [scoring EXCEPT
            !.phase = "parsed",
            !.result = _parse_salary(scoring.jobs[1].salary)]
    /\ UNCHANGED <<clock, jobs, applications, queue, dashPending, last, concVars, timing, analysis, webVars>>

filter_jobs_call ==
    /\ scoring.phase = "input"
    /\ scoring' = [scoring EXCEPT
            !.phase = "filtered",
            !.result = filter_jobs(scoring.jobs, scoring.matcher, scoring.min_score)]
    /\ UNCHANGED <<clock, jobs, applications, queue, dashPending, last, concVars, timing, analysis, webVars>>

\* a matcher, a list of jobs and a min_score, before any call
InitMatcher ==
    /\ InitStore /\ InitConc /\ InitWeb
    /\ timing = [phase |-> "idle"]
    /\ analysis = [phase |-> "idle"]
    /\ scoring \in {[phase |-> "input", matcher |-> m, jobs |-> js, min_score |-> ms,
                      result |-> <<>>] :
                        m \in Matchers, js \in JobLists, ms \in MinScores}

NextMatcher ==
    \/ calculate_match_score_call
    \/ _parse_salary_call
    \/ filter_jobs_call

SpecMatcher == InitMatcher /\ [][NextMatcher]_vars

----------------------------------------------------------------------------
(* Calls of the submission scheduler at any instant of the days around    *)
(* Monday 2 November 2026                                                 *)

DaysBefore == 1
DaysAfter == 2

\* the instants at which get_optimal_apply_time is called
TimingInstants == (0 - 24 * DaysBefore) .. (24 * DaysAfter - 1)

\* jobs of each industry in each kind of location
TimingJobs ==
    { [title |-> t, location |-> l] :
        t \in {"Python Developer", "Financial Analyst", "Registered Nurse",
                "Sales Manager", "Office Assistant"},
        l \in {"Tokyo, Japan", "New York, USA", "Paris, France",
                "San Francisco, CA", "Remote"} }

get_optimal_apply_time_call ==
    /\ timing.phase = "input"
    /\ timing' = IF get_optimal_apply_time_raises(timing.job)
                 THEN [timing EXCEPT !.phase = "raised", !.result = "AttributeError"]
                 ELSE [timing EXCEPT !.phase = "returned",
                         !.result = get_optimal_apply_time(timing.job, timing.now)]
    /\ UNCHANGED <<clock, jobs, applications, queue, dashPending, last, concVars, scoring, analysis, webVars>>

should_apply_now_call ==
    /\ timing.phase = "input"
    /\ timing' = [timing EXCEPT !.phase = "decided",
                     !.result = should_apply_now(timing.job, timing.now)]
    /\ UNCHANGED <<clock, jobs, applications, queue, dashPending, last, concVars, scoring, analysis, webVars>>

InitTiming ==
    /\ InitStore /\ InitConc /\ InitWeb
    /\ scoring = [phase |-> "idle"]
    /\ analysis = [phase |-> "idle"]
    /\ timing \in {[phase |-> "input", job |-> j, now |-> n, result |-> NULL] :
                     j \in TimingJobs, n \in TimingInstants}

NextTiming ==
    \/ get_optimal_apply_time_call
    \/ should_apply_now_call

SpecTiming == InitTiming /\ [][NextTiming]_vars

----------------------------------------------------------------------------
(* Scoring and scheduling of jobs whose texts are missing, None or         *)
(* unparseable                                                             *)

\* what a text key of a job can be
FieldCases == {"text", "unparseable", "missing", "null"}

\* the record of a job from the texts of its keys and the case of each key
job_with(texts, cases) ==
    LET absent == {k \in DOMAIN cases : cases[k] \in {"missing", "null"}}
        nulls == {k \in DOMAIN cases : cases[k] = "null"}
    IN  [k \in ((DOMAIN texts \cup {"nulls"}) \ absent) |->
            IF k = "nulls" THEN nulls ELSE texts[k]]

\* jobs given to calculate_match_score: the salary and the posted date in
\* each case
DataErrorJobs ==
    { job_with([title |-> <<"J", "u", "n", "i", "o", "r", " ", "P", "y", "t", "h", "o", "n", " ", "D", "e", "v", "e", "l", "o", "p", "e", "r">>,
                description |-> EntryLevelDescription,
                easy_apply |-> TRUE,
                salary |-> IF c.salary = "unparseable"
                           THEN <<"C", "o", "m", "p", "e", "t", "i", "t", "i", "v", "e">>
                           ELSE <<"4", "5", "K">>,
                posted_date |-> IF c.posted_date = "unparseable"
                                THEN <<"R", "e", "c", "e", "n", "t">>
                                ELSE <<"J", "u", "s", "t", " ", "p", "o", "s", "t", "e", "d">>], c) :
        c \in [{"salary", "posted_date"} -> FieldCases] }

\* jobs given to get_optimal_apply_time: the title and the location in each
\* case, the unparseable ones being texts without any known keyword
DataErrorTimingJobs ==
    { job_with([title |-> IF c.title = "unparseable" THEN "Office Assistant"
                          ELSE "Python Developer",
                location |-> IF c.location = "unparseable" THEN "Remote"
                             ELSE "New York, USA"], c) :
        c \in [{"title", "location"} -> FieldCases] }

InitDataErrors ==
    /\ InitStore /\ InitConc /\ InitWeb
    /\ analysis = [phase |-> "idle"]
    /\ scoring \in {[phase |-> "input", matcher |-> m, jobs |-> <<j>>, min_score |-> 40,
                      result |-> <<>>] : m \in Matchers, j \in DataErrorJobs}
    /\ timing \in {[phase |-> "input", job |-> j, now |-> n, result |-> NULL] :
                     j \in DataErrorTimingJobs, n \in {StartClock, StartClock + TickHours}}

NextDataErrors ==
    \/ calculate_match_score_call
    \/ get_optimal_apply_time_call

SpecDataErrors == InitDataErrors /\ [][NextDataErrors]_vars

----------------------------------------------------------------------------
(* Classifier of inbound correspondence: response_handler.py.  A text is   *)
(* the sequence of its characters; an accented letter is one character.    *)

positive_indicators ==
    << <<"i", "n", "t", "e-acute", "r", "e", "s", "s", "e-acute">>,
       <<"i", "n", "t", "e-acute", "r", "e", "s", "s", "e-acute", "e">>,
       <<"i", "n", "t", "e-acute", "r", "e", "s", "s", "a", "n", "t">>,
       <<"s", "o", "u", "h", "a", "i", "t", "e", "z", "-", "v", "o", "u", "s">>,
       <<"d", "i", "s", "p", "o", "n", "i", "b", "l", "e">>,
       <<"e", "n", "t", "r", "e", "t", "i", "e", "n">>,
       <<"r", "e", "n", "c", "o", "n", "t", "r", "e", "r">>,
       <<"c", "o", "n", "v", "o", "q", "u", "e", "r">>,
       <<"d", "i", "s", "p", "o", "n", "i", "b", "i", "l", "i", "t", "e-acute">>,
       <<"p", "a", "r", "l", "e", "r">>,
       <<"t", "e-acute", "l", "e-acute", "p", "h", "o", "n", "e">>,
       <<"a", "p", "p", "e", "l">>,
       <<"z", "o", "o", "m">>,
       <<"t", "e", "a", "m", "s">>,
       <<"m", "e", "e", "t">>,
       <<"v", "i", "s", "i", "o">>,
       <<"e", "x", "p", "e-acute", "r", "i", "e", "n", "c", "e">>,
       <<"c", "v">>,
       <<"c", "u", "r", "r", "i", "c", "u", "l", "u", "m", " ", "v", "i", "t", "a", "e">>,
       <<"p", "a", "r", "c", "o", "u", "r", "s">>,
       <<"p", "o", "s", "t", "e">>,
       <<"m", "i", "s", "s", "i", "o", "n">>,
       <<"p", "r", "o", "f", "i", "l">>,
       <<"c", "a", "n", "d", "i", "d", "a", "t", "u", "r", "e">> >>

negative_indicators ==
    << <<"n", "e", " ", "c", "o", "r", "r", "e", "s", "p", "o", "n", "d", " ", "p", "a", "s">>,
       <<"p", "a", "s", " ", "r", "e", "t", "e", "n", "u">>,
       <<"p", "a", "s", " ", "s", "e-acute", "l", "e", "c", "t", "i", "o", "n", "n", "e-acute">>,
       <<"m", "a", "l", "h", "e", "u", "r", "e", "u", "s", "e", "m", "e", "n", "t">>,
       <<"c", "a", "n", "d", "i", "d", "a", "t", "u", "r", "e", " ", "r", "e", "t", "e", "n", "u", "e">>,
       <<"p", "o", "s", "t", "e", " ", "p", "o", "u", "r", "v", "u">>,
       <<"p", "l", "u", "s", " ", "a", "v", "a", "n", "c", "e", "r">>,
       <<"n", "e", " ", "c", "o", "r", "r", "e", "s", "p", "o", "n", "d", " ", "p", "a", "s">>,
       <<"p", "a", "s", " ", "l", "e", " ", "p", "r", "o", "f", "i", "l">>,
       <<"p", "a", "s", " ", "d", "'", "o", "p", "p", "o", "r", "t", "u", "n", "i", "t", "e-acute">>,
       <<"p", "a", "s", " ", "d", "'", "o", "u", "v", "e", "r", "t", "u", "r", "e">>,
       <<"p", "a", "s", " ", "d", "e", " ", "p", "o", "s", "t", "e">>,
       <<"r", "e", "s", "t", "e", "r", " ", "e", "n", " ", "c", "o", "n", "t", "a", "c", "t">>,
       <<"p", "r", "o", "c", "h", "a", "i", "n", "e", " ", "o", "p", "p", "o", "r", "t", "u", "n", "i", "t", "e-acute">>,
       <<"c", "a", "n", "d", "i", "d", "a", "t", "u", "r", "e", " ", "f", "u", "t", "u", "r", "e">>,
       <<"r", "e", "f", "u", "s">>,
       <<"r", "e", "f", "u", "s", "e", "r">>,
       <<"d", "e-acute", "c", "l", "i", "n", "e-acute">>,
       <<"d", "e-acute", "c", "l", "i", "n", "e", "r">>,
       <<"r", "e", "f", "u", "s", "e-acute">> >>

info_requests ==
    << <<"p", "l", "u", "s", " ", "d", "'", "i", "n", "f", "o", "r", "m", "a", "t", "i", "o", "n">>,
       <<"p", "l", "u", "s", " ", "d", "e", " ", "d", "e-acute", "t", "a", "i", "l", "s">>,
       <<"p", "r", "e-acute", "c", "i", "s", "i", "o", "n">>,
       <<"p", "r", "e-acute", "c", "i", "s", "e", "r">>,
       <<"q", "u", "e", "s", "t", "i", "o", "n", "s">>,
       <<"r", "e", "n", "s", "e", "i", "g", "n", "e", "m", "e", "n", "t">>,
       <<"s", "a", "v", "o", "i", "r", " ", "p", "l", "u", "s">>,
       <<"e", "n", " ", "s", "a", "v", "o", "i", "r", " ", "p", "l", "u", "s">>,
       <<"d", "i", "s", "p", "o", "n", "i", "b", "l", "e">>,
       <<"e", "x", "p", "e-acute", "r", "i", "e", "n", "c", "e">>,
       <<"c", "o", "m", "p", "e-acute", "t", "e", "n", "c", "e">>,
       <<"f", "o", "r", "m", "a", "t", "i", "o", "n">>,
       <<"d", "i", "p", "l", "o-circumflex", "m", "e">>,
       <<"r", "e-acute", "m", "u", "n", "e-acute", "r", "a", "t", "i", "o", "n">>,
       <<"s", "a", "l", "a", "i", "r", "e">>,
       <<"p", "r", "e-acute", "t", "e", "n", "t", "i", "o", "n", " ", "s", "a", "l", "a", "r", "i", "a", "l", "e">>,
       <<"p", "r", "e-acute", "t", "e", "n", "t", "i", "o", "n">>,
       <<"d", "e-acute", "b", "u", "t">>,
       <<"d", "i", "s", "p", "o", "n", "i", "b", "i", "l", "i", "t", "e-acute">>,
       <<"m", "o", "b", "i", "l", "e">>,
       <<"t", "e-acute", "l", "e-acute", "t", "r", "a", "v", "a", "i", "l">>,
       <<"p", "r", "e-acute", "s", "e", "n", "t", "i", "e", "l">>,
       <<"p", "e", "r", "m", "i", "s">>,
       <<"v", "e-acute", "h", "i", "c", "u", "l", "e">>,
       <<"d", "e-acute", "p", "l", "a", "c", "e", "m", "e", "n", "t">>,
       <<"m", "o", "b", "i", "l", "i", "t", "e-acute">> >>

\* the words whose presence turns a positive response into an interview request
interview_words ==
    << <<"e", "n", "t", "r", "e", "t", "i", "e", "n">>,
       <<"r", "e", "n", "c", "o", "n", "t", "r", "e">>,
       <<"r", "e", "n", "c", "o", "n", "t", "r", "e", "r">>,
       <<"d", "i", "s", "p", "o", "n", "i", "b", "l", "e">> >>

\* sum(1 for word in indicators if word in email_text): one for each entry
\* of the list that occurs in the text
indicator_score(indicators, email_text) ==
    Cardinality({i \in DOMAIN indicators : contains(indicators[i], email_text)})

\* the category analyze_response chooses for a text
response_action(email_text) ==
    LET text == lower(email_text)
        positive_score == indicator_score(positive_indicators, text)
        negative_score == indicator_score(negative_indicators, text)
        info_score == indicator_score(info_requests, text)
    IN  IF positive_score > 0 /\ positive_score > negative_score
        THEN IF \E i \in DOMAIN interview_words : contains(interview_words[i], text)
             THEN "schedule_interview"
             ELSE "follow_up"
        ELSE IF negative_score > 0 THEN "rejection"
        ELSE IF info_score > 2 THEN "send_info"
        ELSE "unknown"

\* the confidence of each handler, in hundredths
response_confidence(action) ==
    CASE action = "schedule_interview" -> 90
      [] action = "follow_up"          -> 80
      [] action = "rejection"          -> 85
      [] action = "send_info"          -> 90
      [] action = "unknown"            -> 50

\* what the company's web site shows to EmailFinder when the call is made:
\* nothing (or it cannot be reached), or a safety officer's address
Websites == {"none", "rhe"}

\* ResponseHandler._find_company_contacts: the names of the contacts found
_find_company_contacts(website) ==
    CASE website = "rhe"          -> <<"Responsable Hygiene et Securite">>
      [] website = "site_manager" -> <<"Chef de Chantier">>
      [] OTHER                    -> <<>>

\* contact.get('name').split(' ')[0]
first_word(name) ==
    CASE name = "Responsable Hygiene et Securite" -> "Responsable"
      [] name = "Chef de Chantier"                -> "Chef"
      [] OTHER                                    -> name

salutations == <<"Bonjour,", "Madame, Monsieur,", "Bonjour a vous,">>

\* the four time slots: a fixed label and the date of today + 2 .. today + 5
time_slots(today) ==
    << <<"lundi entre 9h et 12h", today + 2>>,
       <<"mardi entre 14h et 17h", today + 3>>,
       <<"mercredi entre 10h et 16h", today + 4>>,
       <<"jeudi entre 9h et 18h", today + 5>> >>

\* the outcomes of random.choice(salutations) and random.sample(time_slots, 2)
RandomDraws ==
    { [salutation |-> s, slots |-> p] :
        s \in DOMAIN salutations,
        p \in {q \in (1 .. 4) \X (1 .. 4) : q[1] # q[2]} }

\* ResponseHandler._generate_interview_response: the parts of the text
_generate_interview_response(handler, contacts, today, draw) ==
    << IF Len(contacts) > 0
       THEN <<"Bonjour", first_word(contacts[1])>>
       ELSE <<salutations[draw.salutation]>>,
       "interview", handler.job.title,
       time_slots(today)[draw.slots[1]], time_slots(today)[draw.slots[2]],
       handler.profile >>

\* the other four replies: a fixed template with the job title and the profile
_generate_response(handler, action) ==
    << <<"Bonjour,">>, action, handler.job.title, handler.profile >>

\* the confidence is lower when no contact was found at the company
_handle_response_by_contacts(handler, action, today, website, draw) ==
    [action |-> action,
     confidence |-> IF _find_company_contacts(website) = <<>>
                    THEN 50 ELSE response_confidence(action),
     suggested_response |-> _generate_response(handler, action)]

\* the handler analyze_response returns through, called on the day today,
\* with the web site answering as website and the random generator drawing
\* draw
_handle_response(handler, action, today, website, draw) ==
    LET contacts == _find_company_contacts(website)
    IN  [action |-> action,
         confidence |-> response_confidence(action),
         suggested_response |->
            IF action = "schedule_interview"
            THEN _generate_interview_response(handler, contacts, today, draw)
            ELSE _generate_response(handler, action)]

\* ResponseHandler.analyze_response
analyze_response(handler, email_text, today, website, draw) ==
    _handle_response(handler, response_action(email_text), today, website, draw)

\* the e-mail bodies analysed
EmailTexts ==
    { <<"N", "o", "u", "s", " ", "s", "o", "u", "h", "a", "i", "t", "o", "n", "s", " ", "v", "o", "u", "s", " ", "r", "e", "n", "c", "o", "n", "t", "r", "e", "r", " ", "p", "o", "u", "r", " ", "u", "n", " ", "e", "n", "t", "r", "e", "t", "i", "e", "n">>,
      <<"E", "N", "T", "R", "E", "T", "I", "E", "N", " ", "J", "E", "U", "D", "I">>,
      <<"e", "t", "e", "s", "-", "v", "o", "u", "s", " ", "d", "i", "s", "p", "o", "n", "i", "b", "l", "e", " ", "?">>,
      <<"V", "o", "t", "r", "e", " ", "p", "r", "o", "f", "i", "l", " ", "e", "s", "t", " ", "i", "n", "t", "e-acute", "r", "e", "s", "s", "a", "n", "t">>,
      <<"M", "a", "l", "h", "e", "u", "r", "e", "u", "s", "e", "m", "e", "n", "t", " ", "v", "o", "t", "r", "e", " ", "c", "a", "n", "d", "i", "d", "a", "t", "u", "r", "e", " ", "n", "'", "e", "s", "t", " ", "p", "a", "s", " ", "r", "e", "t", "e", "n", "u", "e">>,
      <<"M", "a", "l", "h", "e", "u", "r", "e", "u", "s", "e", "m", "e", "n", "t", " ", "l", "e", " ", "p", "o", "s", "t", "e", " ", "e", "s", "t", " ", "p", "o", "u", "r", "v", "u">>,
      <<"V", "o", "t", "r", "e", " ", "p", "r", "o", "f", "i", "l", " ", "n", "e", " ", "c", "o", "r", "r", "e", "s", "p", "o", "n", "d", " ", "p", "a", "s", " ", "a", "u", " ", "p", "o", "s", "t", "e">>,
      <<"M", "e", "r", "c", "i", " ", "d", "e", " ", "p", "r", "e-acute", "c", "i", "s", "e", "r", " ", "s", "a", "l", "a", "i", "r", "e", ",", " ", "f", "o", "r", "m", "a", "t", "i", "o", "n", " ", "e", "t", " ", "p", "e", "r", "m", "i", "s">>,
      <<"s", "a", "l", "a", "i", "r", "e", " ", "e", "t", " ", "p", "e", "r", "m", "i", "s">>,
      <<"M", "e", "r", "c", "i">>,
      <<>> }

\* the job of the application and the applicant's profile of the handler
Handlers ==
    { [job |-> [title |-> ti, company |-> "Acme"],
       profile |-> [first_name |-> "Jean", last_name |-> "Dupont",
                    phone |-> "0600000000", email |-> "jean@example.com"]] :
        ti \in {"Python Developer", "Financial Analyst"} }

MaxAnalyses == 2

\* the days on which a call is made
AnalysisDays == {StartClock \div 24, StartClock \div 24 + 1}

\* one call of handler.analyze_response(text).  The state keeps the
\* category and confidence of the first call, the whole result of the latest
\* call and the days on which calls were made.
analyze_response_call ==
    /\ analysis.calls < MaxAnalyses
    /\ \E action \in {response_action(analysis.text)} :
       \E today \in AnalysisDays, website \in Websites, draw \in RandomDraws :
          \E result \in {_handle_response(analysis.handler, action, today, website, draw)} :
             analysis' = [analysis EXCEPT
                            !.calls = @ + 1,
                            !.days = @ \cup {today},
                            !.first = IF analysis.calls = 0
                                      THEN [action |-> result.action,
                                            confidence |-> result.confidence]
                                      ELSE @,
                            !.latest = result]
    /\ UNCHANGED <<clock, jobs, applications, queue, dashPending, last, concVars,
                   scoring, timing, webVars>>

InitClassifier ==
    /\ InitStore /\ InitConc /\ InitWeb
    /\ scoring = [phase |-> "idle"]
    /\ timing = [phase |-> "idle"]
    /\ analysis \in {[handler |-> h, text |-> e, calls |-> 0, days |-> {},
                       first |-> [action |-> "", confidence |-> 0],
                       latest |-> [action |-> "", confidence |-> 0,
                                   suggested_response |-> <<>>]] :
                        h \in Handlers, e \in EmailTexts}

NextClassifier == analyze_response_call

SpecClassifier == InitClassifier /\ [][NextClassifier]_vars

----------------------------------------------------------------------------
(* Time passes *)

Tick ==
    /\ clock + TickHours <= StartClock + TickHours * MaxTicks
    /\ clock' = clock + TickHours
    /\ last' = [op |-> "tick", job_id |-> "", arg |-> "", ret |-> ""]
    /\ UNCHANGED <<jobs, applications, queue, dashPending, concVars, pureVars, webVars>>

----------------------------------------------------------------------------

----------------------------------------------------------------------------
(* Dashboard search: web_app.py, start_search and its run_search thread *)

\* the sources a request names; ['indeed'] is the default
SourceLists == {{"indeed"}, {}}

\* what IndeedBot.search_jobs and the matcher's filter leave to save
FilteredJobs == {<<>>} \cup {<<d>> : d \in ScrapedJobs}

\* the test at the head of start_search
search_is_running(status) == status.running

\* the request handler of POST /api/search: 400 when search_status says a
\* search runs, else start the thread and answer 'started'; the handler
\* does not write search_status
start_search(r) ==
    /\ search.req[r] = "idle"
    /\ IF search_is_running(search.status)
       THEN search' = [search EXCEPT !.req[r] = "Search already running"]
       ELSE \E sources \in SourceLists :
                search' = [search EXCEPT !.req[r] = "started",
                              !.thread[r] = [pc |-> "created", sources |-> sources,
                                             jobs |-> <<>>]]
    /\ UNCHANGED <<clock, jobs, applications, queue, dashPending, last, concVars, pureVars>>

\* the thread's first statements: running = True, progress 0
run_search_begin(r) ==
    /\ search.thread[r].pc = "created"
    /\ search' = [search EXCEPT !.thread[r].pc = "begun",
                     !.status.running = TRUE, !.status.progress = 0,
                     !.status.message = "Starting search..."]
    /\ UNCHANGED <<clock, jobs, applications, queue, dashPending, last, concVars, pureVars>>

\* the Indeed search, when the request names that source
run_search_indeed(r) ==
    /\ search.thread[r].pc = "begun"
    /\ "indeed" \in search.thread[r].sources
    /\ \E found \in FilteredJobs :
          search' = [search EXCEPT !.thread[r].pc = "searched",
                        !.thread[r].jobs = found,
                        !.status.message = "Searching Indeed...",
                        !.status.progress = 20]
    /\ UNCHANGED <<clock, jobs, applications, queue, dashPending, last, concVars, pureVars>>

RECURSIVE save_jobs(_, _, _)
save_jobs(J, found, now) ==
    IF found = <<>> THEN J ELSE save_jobs(add_job_rows(J, Head(found), now), Tail(found), now)

\* scoring and saving: progress 60, then 80 and db.add_job for each job
run_search_save(r) ==
    /\ \/ search.thread[r].pc = "searched"
       \/ search.thread[r].pc = "begun" /\ "indeed" \notin search.thread[r].sources
    /\ jobs' = save_jobs(jobs, search.thread[r].jobs, NowIso)
    /\ search' = [search EXCEPT !.thread[r].pc = "saved",
                     !.status.message = "Saving to database...",
                     !.status.progress = 80]
    /\ UNCHANGED <<clock, applications, queue, dashPending, last, concVars, pureVars>>

\* the end of the try block and the finally clause
run_search_finish(r) ==
    /\ search.thread[r].pc = "saved"
    /\ search' = [search EXCEPT !.thread[r].pc = "done",
                     !.status.progress = 100,
                     !.status.message = IF search.thread[r].jobs = <<>>
                                        THEN "Found 0 jobs" ELSE "Found 1 jobs",
                     !.status.last_search = NowIso,
                     !.status.running = FALSE]
    /\ UNCHANGED <<clock, jobs, applications, queue, dashPending, last, concVars, pureVars>>

\* an exception in the try block: the message, then the finally clause
run_search_fails(r) ==
    /\ search.thread[r].pc \in {"begun", "searched"}
    /\ search' = [search EXCEPT !.thread[r].pc = "done",
                     !.status.message = "Error",
                     !.status.running = FALSE]
    /\ UNCHANGED <<clock, jobs, applications, queue, dashPending, last, concVars, pureVars>>

NextSearch ==
    \/ \E r \in Requests : start_search(r)
    \/ \E r \in Requests : run_search_begin(r)
    \/ \E r \in Requests : run_search_indeed(r)
    \/ \E r \in Requests : run_search_save(r)
    \/ \E r \in Requests : run_search_finish(r)
    \/ \E r \in Requests : run_search_fails(r)

----------------------------------------------------------------------------
Init == InitStore /\ InitConc /\ InitWeb /\ InitPure

SpecSearch == Init /\ [][NextSearch]_vars


Next ==
    \/ \E d \in ScrapedJobs : add_job(d)
    \/ \E j \in JobIds, st \in PostedStatuses : api_update_job_status(j, st)
    \/ api_update_job_status_applied
    \/ \E d \in ScrapedJobs : auto_apply(d)
    \/ process_queued_applications
    \/ \E j \in JobIds, e \in EmailInputs : process_incoming_email(j, e[1], e[2])
    \/ Tick

Spec == Init /\ [][Next]_vars

\* the jobs the LinkedIn scraper hands over
LinkedInJobs ==
    { [job_id |-> "linkedin_1", title |-> "Sales Manager", company |-> "Acme",
       location |-> "Remote", source |-> "linkedin", match_score |-> 60,
       easy_apply |-> TRUE],
      [job_id |-> "linkedin_2", title |-> "Financial Analyst", company |-> "Acme",
       location |-> "Tokyo, Japan", source |-> "linkedin", match_score |-> 50,
       easy_apply |-> TRUE] }

\* the scheduler's tasks over LinkedIn jobs: the search that saves the jobs
\* and runs auto_apply over them (run_job_search, twice a day), the
\* auto-apply run over the stored new jobs (every 4 hours), the queue
\* processor
NextPipeline ==
    \/ \E d \in LinkedInJobs : add_job(d)
    \/ \E d \in LinkedInJobs : auto_apply(d)
    \/ auto_apply_job
    \/ process_queued_applications
    \/ Tick

SpecPipeline == Init /\ [][NextPipeline]_vars

\* the store under concurrent callers: two savers of scraped jobs, the
\* dashboard's status requests and its statistics
NextConcurrent ==
    \/ \E t \in Threads, d \in ScrapedJobs, io \in StoreOutcomes : add_job_execute(t, d, io)
    \/ \E t \in Threads : add_job_commit(t)
    \/ \E j \in JobIds, st \in RequestedStatuses, io \in StoreOutcomes :
            update_job_status_call(j, st, io)
    \/ get_stats_query

SpecConcurrent == Init /\ [][NextConcurrent]_vars

----------------------------------------------------------------------------
(* Properties *)

\* C1: in every reachable state the jobs table holds at most one row for
\* any given job_id.
C1_UniqueJobId ==
    \A i, j \in DOMAIN jobs : jobs[i].job_id = jobs[j].job_id => i = j

\* a stored job_id was inserted again, after the job was applied to and queued
C1_Witness ==
    /\ last.op = "add_job" /\ last.ret = "False"
    /\ queue # <<>>
    /\ \E i \in DOMAIN jobs : jobs[i].job_id = last.job_id /\ jobs[i].status = "applied"

C3_AppliedDateSetOnce ==
    [][\A i \in DOMAIN jobs :
        ~jobs[i].applied_date.isnull => jobs'[i].applied_date = jobs[i].applied_date]_vars

C6_RejectedOfferTerminal ==
    [][\A i \in DOMAIN jobs :
        jobs[i].status \in {"rejected", "offer"} => jobs'[i].status = jobs[i].status]_vars

\* C7: after process_incoming_email handled an interview request for an
\* applied job, the job's status is interview.
C7_InterviewRequestSetsInterview ==
    (last.op = "process_incoming_email" /\ last.arg = "schedule_interview" /\ last.job_id # "") =>
        job_row(jobs, last.job_id).status = "interview"

\* C8: after process_incoming_email handled a rejection for an applied job,
\* the job's status is rejected and the call returned success.
C8_RejectionSetsRejected ==
    (last.op = "process_incoming_email" /\ last.arg = "rejection" /\ last.job_id # "") =>
        /\ job_row(jobs, last.job_id).status = "rejected"
        /\ last.ret = "success"

C10_PendingByInstant ==
    LET got == pending_rows(queue, jobs, NowIso)
    IN  /\ {got[k] : k \in DOMAIN got} =
              {i \in DOMAIN queue :
                  /\ queue[i].status = "pending"
                  /\ Instant(queue[i].scheduled_time) <= clock}
        /\ \A k, m \in DOMAIN got :
              k < m => Instant(queue[got[k]].scheduled_time)
                         <= Instant(queue[got[m]].scheduled_time)

\* C11: a pending queue row whose scheduled instant is past is among the
\* rows get_pending_applications(now) selects; a completed row stays
\* completed, is selected for no as_of, and mark_queue_completed on its id
\* again changes nothing.
C11_QueueCompletionOneWay ==
    [][/\ \A i \in DOMAIN queue :
            (queue[i].status = "pending" /\ Instant(queue[i].scheduled_time) < clock)
                => i \in pending_ids(queue, jobs, NowIso)
       /\ \A i \in DOMAIN queue :
            queue[i].status = "completed" =>
                /\ queue'[i].status = "completed"
                /\ mark_queue_completed(queue, i) = queue
                /\ \A j \in DOMAIN queue :
                      i \notin pending_ids(queue', jobs',
                          [queue[j].scheduled_time EXCEPT !.aware = FALSE])]_vars

\* C12: in a run of process_queued_applications a due row whose adapter run
\* did not succeed stays pending, a row that was not run is left as it
\* was, and a job none of whose rows succeeded keeps its status.
C12_CompletedOnlyOnSuccess ==
    [][last'.op = "process_queued_applications" =>
        LET rows == pending_rows(queue, jobs, NowIso)
            ran == {rows[k] : k \in DOMAIN rows}
            succeeded == {rows[k] : k \in {m \in DOMAIN rows : last'.arg[m]}}
        IN  /\ \A i \in ran \ succeeded : queue'[i].status = "pending"
            /\ \A i \in DOMAIN queue \ ran : queue'[i] = queue[i]
            /\ \A n \in DOMAIN jobs :
                  (\A i \in succeeded : queue[i].job_id # jobs[n].job_id)
                      => jobs'[n].status = jobs[n].status]_vars

C14_StatsConsistent ==
    Len(stats) = Len(STATS_KEYS) =>
        stats[2] + stats[3] + stats[4] + stats[5] <= stats[1]

\* C15: a store operation whose statement fails returns to its caller
\* (False for add_job) and never raises.
C15_NoStoreErrorPropagates ==
    /\ \A t \in Threads : conn[t].ret # "raised"
    /\ last.op = "update_job_status" => last.ret # "raised"

\* C16: whatever the job and the matcher, calculate_match_score returns a
\* number from 0 to 100, and so is every match_score filter_jobs writes.
C16_ScoreInRange ==
    /\ scoring.phase = "scored" => scoring.result \in 0 .. 100
    /\ scoring.phase = "filtered" =>
          \A k \in DOMAIN scoring.result : scoring.result[k].match_score \in 0 .. 100

\* a job with four required keywords, an entry-level pattern, a salary above
\* the minimum and easy apply was scored: the sum is above 100
C16_Witness ==
    /\ scoring.phase = "scored"
    /\ scoring.result = 100
    /\ scoring.jobs[1].easy_apply
    /\ scoring.jobs[1].description = EntryLevelDescription
    /\ scoring.jobs[1].salary = <<"4", "5", "K">>
    /\ scoring.matcher.min_salary = 35000
    /\ Len(scoring.matcher.experience_level) = 3

\* C17: the score is the sum the claim gives, held between 0 and 100:
\* 50, -30 for each exclude keyword in the text, +15 for each required
\* keyword in the text, +10 when three or more were found, +10 for each
\* configured level with a matching pattern, the salary adjustment (none
\* without a salary text, without a minimum, or when the text parses to 0),
\* +5 for easy apply, +10 or +5 for a recent posting.
C17_ScoreFormula ==
    scoring.phase = "scored" =>
        LET job == scoring.jobs[1]
            m == scoring.matcher
            text == lower(job.title) \o <<" ">> \o lower(job.description)
            excluded == {i \in DOMAIN m.exclude_keywords :
                            contains(m.exclude_keywords[i], text)}
            required == {i \in DOMAIN m.required_keywords :
                            contains(m.required_keywords[i], text)}
            levels == {i \in DOMAIN m.experience_level :
                        \E p \in DOMAIN experience_patterns(m.experience_level[i]) :
                            re_search(experience_patterns(m.experience_level[i])[p], text)}
            parsed == _parse_salary(job.salary)
            salary == IF job.salary = <<>> \/ parsed = 0 \/ m.min_salary = 0 THEN 0
                      ELSE IF parsed >= m.min_salary THEN 15
                      ELSE IF 10 * parsed < 8 * m.min_salary THEN 0 - 20
                      ELSE 0
            sum == 50 - 30 * Cardinality(excluded) + 15 * Cardinality(required)
                   + (IF Cardinality(required) >= 3 THEN 10 ELSE 0)
                   + 10 * Cardinality(levels) + salary
                   + (IF job.easy_apply THEN 5 ELSE 0)
                   + posted_points(job.posted_date)
        IN  scoring.result = IF sum < 0 THEN 0 ELSE IF sum > 100 THEN 100 ELSE sum

\* the claim's example: two exclude keywords match and nothing else does
C17_Witness ==
    /\ scoring.phase = "scored"
    /\ scoring.result = 0
    /\ scoring.jobs[1].title = <<"S", "e", "n", "i", "o", "r", " ", "L", "e", "a", "d", " ", "E", "n", "g", "i", "n", "e", "e", "r">>
    /\ scoring.jobs[1].description = <<>>
    /\ scoring.jobs[1].salary = <<>>
    /\ ~scoring.jobs[1].easy_apply
    /\ scoring.jobs[1].posted_date = <<>>
    /\ Len(scoring.matcher.exclude_keywords) = 3

\* the number the digits of text from position a to position b spell
RECURSIVE digits_value(_, _, _)
digits_value(text, a, b) ==
    IF a > b THEN 0 ELSE digits_value(text, a, b - 1) * 10 + digit_value(text[b])

\* C18: _parse_salary returns the first run of digits of the normalized
\* text, times 12 when the text has a monthly marker, then times 1000 when
\* that is below 1000, and 0 when the text has no digit; "45K" gives 45000
\* and "3500/mois" gives 42000.
C18_ParseSalary ==
    scoring.phase = "parsed" =>
        LET salary_text == scoring.jobs[1].salary
            text == SelectSeq(lower(salary_text), LAMBDA c : c # " " /\ c # ",")
            digits == {i \in DOMAIN text : is_digit(text[i])}
            first == CHOOSE i \in digits : \A k \in digits : i <= k
            last_digit == CHOOSE e \in digits :
                            /\ first <= e
                            /\ \A k \in first .. e : k \in digits
                            /\ e + 1 \notin digits
            monthly == \E marker \in {<<"m", "o", "n", "t", "h">>, <<"m", "o", "i", "s">>, <<"/", "m">>} : contains(marker, text)
            number == digits_value(text, first, last_digit)
            annual == IF monthly THEN 12 * number ELSE number
        IN  /\ scoring.result = IF digits = {} THEN 0
                                ELSE IF annual < 1000 THEN 1000 * annual ELSE annual
            /\ salary_text = <<"4", "5", "K">> => scoring.result = 45000
            /\ salary_text = <<"3", "5", "0", "0", "/", "m", "o", "i", "s">> => scoring.result = 42000

\* a monthly amount with a thousands comma was parsed
C18_Witness ==
    /\ scoring.phase = "parsed"
    /\ scoring.jobs[1].salary = <<"1", ",", "5", "0", "0", "/", "m", "o", "n", "t", "h">>
    /\ scoring.result = 18000

scan_exhausted(start, optimal_hours) ==
    \A k \in 0 .. (max_iterations - 1) :
        ~(weekday(start + k) \in OPTIMAL_DAYS /\ hour(start + k) \in optimal_hours)

\* C20: the instant get_optimal_apply_time returns, read in the company's
\* zone, is a Tuesday, Wednesday or Thursday at an hour of the industry's
\* window, or, if the scan found nothing, such a weekday at 09:00.
C20_OptimalTimeInWindow ==
    timing.phase = "returned" =>
        LET tz == _get_company_timezone(timing.job.location)
            optimal_hours == OPTIMAL_HOURS(_detect_industry(timing.job.title))
            instant == Instant(timing.result)
            local == instant + UtcOffset(tz, instant)
        IN  /\ weekday(local) \in OPTIMAL_DAYS
            /\ IF scan_exhausted(timing.now + UtcOffset(tz, timing.now), optimal_hours)
               THEN hour(local) = 9
               ELSE hour(local) \in optimal_hours

\* C21: should_apply_now is true exactly when the optimal time is at most
\* 2 hours after the present instant, that is when one of the present hour
\* and the two after it is an acceptable weekday and hour on the company's
\* wall clock; it is true when the present hour itself is one.
C21_ShouldApplyNow ==
    timing.phase = "decided" =>
        LET tz == _get_company_timezone(timing.job.location)
            optimal_hours == OPTIMAL_HOURS(_detect_industry(timing.job.title))
            local == timing.now + UtcOffset(tz, timing.now)
            acceptable(wall) == weekday(wall) \in OPTIMAL_DAYS /\ hour(wall) \in optimal_hours
            optimal_time == get_optimal_apply_time(timing.job, timing.now)
        IN  /\ timing.result = (Instant(optimal_time) - timing.now <= 2)
            /\ timing.result = (\E k \in 0 .. 2 : acceptable(local + k))
            /\ acceptable(local) => timing.result

\* the optimal time is exactly two hours away and the answer is yes
C21_Witness ==
    /\ timing.phase = "decided"
    /\ timing.result = TRUE
    /\ Instant(get_optimal_apply_time(timing.job, timing.now)) - timing.now = 2

\* how many different words of the list occur in the text
words_found(indicators, text) ==
    Cardinality({indicators[i] : i \in {k \in DOMAIN indicators :
                                            contains(indicators[k], text)}})

\* C22: analyze_response returns the category and confidence of the first
\* rule that applies: more positive words than rejection words (and at
\* least one) with an interview word gives an interview request at 0.9,
\* without one a follow-up at 0.8; otherwise a rejection word gives a
\* rejection at 0.85; otherwise more than two information words give an
\* information request at 0.9; otherwise unknown at 0.5.
C22_FirstApplicableRule ==
    analysis.calls >= 1 =>
        LET text == lower(analysis.text)
            positive == words_found(positive_indicators, text)
            rejection == words_found(negative_indicators, text)
            information == words_found(info_requests, text)
            scheduling == \E i \in DOMAIN interview_words :
                              contains(interview_words[i], text)
            expected ==
                IF positive > 0 /\ positive > rejection /\ scheduling
                THEN <<"schedule_interview", 90>>
                ELSE IF positive > 0 /\ positive > rejection THEN <<"follow_up", 80>>
                ELSE IF rejection > 0 THEN <<"rejection", 85>>
                ELSE IF information > 2 THEN <<"send_info", 90>>
                ELSE <<"unknown", 50>>
        IN  <<analysis.latest.action, analysis.latest.confidence>> = expected

\* C23: every call of analyze_response on the same text, by the same
\* handler, returns the category and the confidence of the first call,
\* whatever the day, the web site's answer and the random draws.
C23_ClassifierDeterministic ==
    analysis.calls >= 1 =>
        /\ analysis.latest.action = analysis.first.action
        /\ analysis.latest.confidence = analysis.first.confidence

\* an interview request was analysed twice, on two different days
C23_Witness ==
    /\ analysis.calls = 2
    /\ Cardinality(analysis.days) = 2
    /\ analysis.latest.action = "schedule_interview"

\* C29: a further call of analyze_response on the same text, by the same
\* handler, returns the suggested_response of the call before it.
C29_ReplyDeterministic ==
    [][analysis.calls >= 1 =>
         analysis'.latest.suggested_response = analysis.latest.suggested_response]_vars

\* C24: for a job whose salary, posted date, location or title is missing,
\* None or unparseable, calculate_match_score returns a number from 0 to
\* 100 and get_optimal_apply_time returns an instant, in UTC when no
\* location is recognised and in the default window when no industry is;
\* neither raises.
C24_DataErrorsDegrade ==
    /\ scoring.phase # "input" =>
          /\ scoring.phase = "scored"
          /\ scoring.result \in 0 .. 100
    /\ timing.phase # "input" =>
          /\ timing.phase = "returned"
          /\ job_get(timing.job, "location", "") # "New York, USA" =>
                timing.result.off = 0
          /\ job_get(timing.job, "title", "") # "Python Developer" =>
                hour(timing.result.wall) \in OPTIMAL_HOURS("default")

\* C25: in a run of process_queued_applications every due row whose
\* submission succeeded is itself marked completed and is no longer
\* pending, and no other row changes its status.
C25_MarksTheRowItself ==
    [][last'.op = "process_queued_applications" =>
        LET rows == pending_rows(queue, jobs, NowIso)
            succeeded == {rows[k] : k \in {m \in DOMAIN rows : last'.arg[m]}}
        IN  /\ \A q \in succeeded :
                  /\ queue'[q].status = "completed"
                  /\ q \notin pending_ids(queue', jobs', NowIso)
            /\ \A i \in DOMAIN queue \ succeeded :
                  queue'[i].status = queue[i].status]_vars

\* C26: when auto_apply hands a job to the submission adapter at once and
\* the adapter reports success, the store then holds the job with status
\* applied, so that get_new_jobs no longer returns it.
C26_ImmediateSubmissionRecorded ==
    [][(last'.op = "auto_apply" /\ last'.ret = "submitted" /\ last'.arg = "success") =>
          /\ job_row(jobs', last'.job_id).status = "applied"
          /\ \A k \in DOMAIN get_new_jobs(jobs') :
                get_new_jobs(jobs')[k].job_id # last'.job_id]_vars

\* the pending rows of the queue for one job
pending_for(Q, job_id) ==
    {i \in DOMAIN Q : Q[i].job_id = job_id /\ Q[i].status = "pending"}

\* C27: at every moment the queue holds at most one pending row per job.
C27_OnePendingPerJob ==
    \A d \in LinkedInJobs : Cardinality(pending_for(queue, d.job_id)) <= 1

\* the industries of OPTIMAL_HOURS, with the default
Industries == {"tech", "finance", "healthcare", "retail", "default"}

active_searches == {r \in Requests : search.thread[r].pc \notin {"none", "done"}}

\* C30: at most one background search thread is active at any moment: a
\* POST /api/search that arrives while an accepted search has not ended
\* is answered 'Search already running'.
C30_OneSearchAtATime == Cardinality(active_searches) <= 1

====
